---- MODULE Spec2Model ----
(***************************************************************************)
(* Scheduling and matching core of the TeaWeb proxy:                       *)
(*   - scheduling.RandomScheduling (Start / Next), the weighted random     *)
(*     selection table;                                                    *)
(*   - backend.OnlineAction.Run, which brings a backend back online;       *)
(*   - teaconfigs.ServerConfig.MatchName, NextBackend and NextFastcgi.     *)
(***************************************************************************)
EXTENDS Integers, Sequences, FiniteSets, TLC

\* ------------------------------------------------------------------------
\* Bounds of the model
\* ------------------------------------------------------------------------

\* backends of the running server's backend list (pool specification)
NumBackends == 2
\* Start runs on one instance before the model stops re-running it
MaxStarts == 2
\* rand.Int() draws are taken from 0..MaxRand
MaxRand == 5
\* configured failure threshold of a backend
MaxFails == 1
\* candidates of a fresh instance (table specification)
MaxCandidates == 3

\* ------------------------------------------------------------------------
\* Program constants
\* ------------------------------------------------------------------------

\* weights above this are clamped (part_001:25-26)
WeightCap == 10000
\* up to this sum of weights the weight itself is the slot count (part_001:43)
SmallSum == 1000
\* size of the slot universe the weights are scaled to (part_001:46)
SlotUniverse == 10000

\* a nil candidate
None == 0

VARIABLES
    \* --- RandomScheduling instance and its pool
    backends,      \* backend id -> [IsDown, CurrentFails, Weight]
    Candidates,    \* Scheduling.Candidates: sequence of backend ids
    array,         \* RandomScheduling.array
    count,         \* RandomScheduling.count
    starts,        \* number of Start calls made on the instance
    seen,          \* the candidates (id, weight) the most recent Start read
    picked,        \* what the most recent Next returned
    online,        \* parameters and outcome of the most recent OnlineAction.Run
    \* --- Start running step by step, concurrently with Next
    pc,            \* position of the Start call
    sumWeight,     \* Start's local sumWeight
    k,             \* index of the candidate of the second loop
    i,             \* Start's inner loop variable i
    cnt,           \* Start's local count
    before,        \* the table (array up to count) when the Start call began
    view,          \* the table the most recent Next drew from, and when
    \* --- ServerConfig
    Name,          \* ServerConfig.Name: sequence of strings (sequences of characters)
    host,          \* argument of the most recent MatchName call
    match,         \* its result [matchedName, matched]
    Backends,      \* ServerConfig.Backends: sequence of [On, IsDown]
    Fastcgi,       \* ServerConfig.Fastcgi: sequence of [On, IsDown]
    chosen         \* result of the most recent NextBackend / NextFastcgi

schedVars == <<backends, Candidates, array, count, starts, seen, picked, online>>
raceVars == <<pc, sumWeight, k, i, cnt, before, view>>
serverVars == <<Name, host, match, Backends, Fastcgi, chosen>>
vars == <<schedVars, raceVars, serverVars>>

\* ------------------------------------------------------------------------
\* RandomScheduling.Start, as a function of the candidates
\* ------------------------------------------------------------------------

\* c.CandidateWeight(): the weight of the backend behind candidate c
CandidateWeight(c) == backends[c].Weight

\* part_001:23-27 and 37-41
Normalize(weight) ==
    IF weight = 0 THEN 1
    ELSE IF weight > WeightCap THEN WeightCap
    ELSE weight

\* first loop of Start (part_001:20-29)
RECURSIVE SumWeight(_)
SumWeight(cs) ==
    IF cs = <<>> THEN 0
    ELSE SumWeight(SubSeq(cs, 1, Len(cs) - 1)) + Normalize(CandidateWeight(cs[Len(cs)]))

\* uint(math.Round(float64(a) / float64(b))): half away from zero. a <= 10^8 and
\* the quotient is below 2^14, so the float64 quotient is within 2^-39 of a/b while
\* a/b is either a half-integer or at least 1/(2b) away from one: the rounding of
\* the float64 quotient is the rounding of the exact one.
Round(a, b) == (2 * a + b) \div (2 * b)

\* the scaled count with the quotient truncated instead of rounded
SlotCountTruncated(weight, sum) ==
    IF sum <= SmallSum THEN weight ELSE (weight * SlotUniverse) \div sum

\* the scaled count with the quotient rounded up instead of to the nearest
SlotCountCeil(weight, sum) ==
    IF sum <= SmallSum THEN weight ELSE (weight * SlotUniverse + sum - 1) \div sum

\* part_001:42-47
SlotCount(weight, sum) ==
    IF sum <= SmallSum THEN weight ELSE Round(weight * SlotUniverse, sum)

\* inner loop of Start (part_001:48-50): n appends of c
AppendTimes(arr, c, n) == arr \o [j \in 1..n |-> c]

\* second loop of Start (part_001:35-52) from candidate index from on; the
\* result is the pair <<array, count>>
RECURSIVE Expand(_, _, _, _, _)
Expand(cs, from, sum, arr, total) ==
    IF from > Len(cs) THEN <<arr, total>>
    ELSE LET c == SlotCount(Normalize(CandidateWeight(cs[from])), sum)
         IN Expand(cs, from + 1, sum, AppendTimes(arr, cs[from], c), total + c)

\* the whole of Start (part_001:19-55) on an instance holding <<arr, total>>
StartResult(cs, arr, total) ==
    IF SumWeight(cs) = 0 THEN <<arr, total>>
    ELSE Expand(cs, 1, SumWeight(cs), arr, total)

\* the candidates as Start reads them: id and weight
Snapshot(cs) == [j \in 1..Len(cs) |-> [id |-> cs[j], weight |-> CandidateWeight(cs[j])]]

\* ------------------------------------------------------------------------
\* RandomScheduling as called by its pool: Start and Next run to completion
\* ------------------------------------------------------------------------

BackendIds == 1..NumBackends

\* weights a backend is configured with in the pool specification
PoolWeights == {0, 2}

\* the servers, backend lists and backends the lookups of OnlineAction.Run find
ConfigFiles == {"s1", "s2"}
RunningServers == {"s1"}
FindServer(server) == server \in RunningServers
FindBackendList(locationId, websocket) == locationId = "loc1" /\ websocket = FALSE
FindBackend(backendId) == backendId \in BackendIds

\* no call made yet; the outcome of a call is held as a one-element sequence
NoCall == <<>>

serverIdle == Name = <<>> /\ host = <<>> /\ match = NoCall
                 /\ Backends = <<>> /\ Fastcgi = <<>> /\ chosen = NoCall
raceIdle == pc = "idle" /\ sumWeight = 0 /\ k = 0 /\ i = 0 /\ cnt = 0
               /\ before = <<>> /\ view = NoCall

Init ==
    /\ backends \in [BackendIds -> [IsDown : {FALSE}, CurrentFails : {0}, Weight : PoolWeights]]
    /\ Candidates = <<>>
    /\ array = <<>>
    /\ count = 0
    /\ starts = 0
    /\ seen = <<>>
    /\ picked = NoCall
    /\ online = NoCall
    /\ raceIdle
    /\ serverIdle

\* Start run to completion on the instance (part_001:19-55)
StartCall(cs) ==
    LET r == StartResult(cs, array, count)
    IN /\ array' = r[1]
       /\ count' = r[2]
       /\ starts' = starts + 1
       /\ seen' = Snapshot(cs)

\* the backends of bk that are not down, in the order of the list
RECURSIVE UpFrom(_, _)
UpFrom(bk, b) ==
    IF b > NumBackends THEN <<>>
    ELSE (IF bk[b].IsDown THEN <<>> ELSE <<b>>) \o UpFrom(bk, b + 1)

\* runningServer.SetupScheduling(false): the candidates are the backends that are
\* up, and Start is re-run on the active algorithm
SetupScheduling(bk) ==
    /\ starts < MaxStarts
    /\ Candidates' = UpFrom(bk, 1)
    /\ StartCall(UpFrom(bk, 1))

\* Next (part_001:58-64) with rand.Int() = r
NextResult(r) ==
    IF count = 0 THEN None
    ELSE array[(r % count) + 1]

NextCall(r) ==
    /\ picked' = <<NextResult(r)>>
    /\ online' = NoCall
    /\ UNCHANGED <<backends, Candidates, array, count, starts, seen>>
    /\ UNCHANGED <<raceVars, serverVars>>

\* a backend's weight is reconfigured; Start is not run by this
SetWeight(b, w) ==
    /\ backends[b].Weight # w
    /\ backends' = [backends EXCEPT ![b].Weight = w]
    /\ picked' = NoCall
    /\ online' = NoCall
    /\ UNCHANGED <<Candidates, array, count, starts, seen>>
    /\ UNCHANGED <<raceVars, serverVars>>

\* Start is re-run after a change
Resetup ==
    /\ SetupScheduling(backends)
    /\ picked' = NoCall
    /\ online' = NoCall
    /\ UNCHANGED backends
    /\ UNCHANGED <<raceVars, serverVars>>

\* markDown(b): the backend stays in the pool, Start is re-run
MarkDown(b) ==
    /\ ~backends[b].IsDown
    /\ backends' = [backends EXCEPT ![b].IsDown = TRUE]
    /\ SetupScheduling(backends')
    /\ picked' = NoCall
    /\ online' = NoCall
    /\ UNCHANGED <<raceVars, serverVars>>

\* a failed attempt against b: at the threshold the pool marks b down
IncreaseFails(b) ==
    /\ ~backends[b].IsDown
    /\ backends[b].CurrentFails < MaxFails
    /\ IF backends[b].CurrentFails + 1 >= MaxFails
       THEN /\ backends' = [backends EXCEPT ![b].CurrentFails = @ + 1, ![b].IsDown = TRUE]
            /\ SetupScheduling(backends')
       ELSE /\ backends' = [backends EXCEPT ![b].CurrentFails = @ + 1]
            /\ UNCHANGED <<Candidates, array, count, starts, seen>>
    /\ picked' = NoCall
    /\ online' = NoCall
    /\ UNCHANGED <<raceVars, serverVars>>

\* the backend is brought up with its failure counter kept
OnlineEffectKeepsFails(bk, b) == [bk EXCEPT ![b].IsDown = FALSE]

\* update.go:125-126
OnlineEffect(bk, b) == [bk EXCEPT ![b].IsDown = FALSE, ![b].CurrentFails = 0]

\* OnlineAction.Run (update.go:108-133)
OnlineRun(server, locationId, websocket, backendId) ==
    /\ IF server \notin ConfigFiles
       THEN \* NewServerConfigFromFile fails: this.Fail ends the action
            /\ online' = <<[server |-> server, locationId |-> locationId,
                           websocket |-> websocket, backendId |-> backendId,
                           result |-> "fail", pre |-> backends, preStarts |-> starts,
                           preTable |-> <<array, count>>]>>
            /\ UNCHANGED <<backends, Candidates, array, count, starts, seen>>
       ELSE /\ IF FindServer(server) /\ FindBackendList(locationId, websocket)
                    /\ FindBackend(backendId)
               THEN /\ backends' = OnlineEffect(backends, backendId)
                    /\ SetupScheduling(backends')
               ELSE UNCHANGED <<backends, Candidates, array, count, starts, seen>>
            /\ online' = <<[server |-> server, locationId |-> locationId,
                           websocket |-> websocket, backendId |-> backendId,
                           result |-> "success", pre |-> backends, preStarts |-> starts,
                           preTable |-> <<array, count>>]>>
    /\ picked' = NoCall
    /\ UNCHANGED <<raceVars, serverVars>>

\* the parameters of an OnlineAction.Run call: a lookup that fails ends the
\* lookups, so the parameters read after it are left at "loc1", FALSE
OnlineParams ==
    {[server |-> s, locationId |-> "loc1", websocket |-> FALSE, backendId |-> b] :
        s \in ConfigFiles \cup {"missing"}, b \in BackendIds \cup {0}}
    \cup
    {[server |-> "s1", locationId |-> l, websocket |-> w, backendId |-> b] :
        l \in {"loc1", "loc2"}, w \in BOOLEAN, b \in BackendIds \cup {0}}

Next ==
    \/ \E r \in 0..MaxRand : NextCall(r)
    \/ \E b \in BackendIds, w \in PoolWeights : SetWeight(b, w)
    \/ Resetup
    \/ \E b \in BackendIds : MarkDown(b)
    \/ \E b \in BackendIds : IncreaseFails(b)
    \/ \E p \in OnlineParams : OnlineRun(p.server, p.locationId, p.websocket, p.backendId)

Spec == Init /\ [][Next]_vars

\* the pool under health transitions only
NextOnline ==
    \/ \E b \in BackendIds : MarkDown(b)
    \/ \E b \in BackendIds : IncreaseFails(b)
    \/ \E p \in OnlineParams : OnlineRun(p.server, p.locationId, p.websocket, p.backendId)

SpecOnline == Init /\ [][NextOnline]_vars

\* ------------------------------------------------------------------------
\* Start on a fresh instance, over the whole range of weights
\* ------------------------------------------------------------------------

\* weights on both sides of the clamp and of the scaling threshold
TableWeights == {0, 2, 600, 1598, 10001}

InitTable ==
    /\ \E n \in 0..MaxCandidates :
        /\ backends \in [1..MaxCandidates ->
                            [IsDown : {FALSE}, CurrentFails : {0}, Weight : TableWeights]]
        /\ \A b \in 1..MaxCandidates : b > n => backends[b].Weight = 0
        /\ Candidates = [j \in 1..n |-> j]
    /\ array = <<>>
    /\ count = 0
    /\ starts = 0
    /\ seen = <<>>
    /\ picked = NoCall
    /\ online = NoCall
    /\ raceIdle
    /\ serverIdle

TableStart ==
    /\ starts < MaxStarts
    /\ StartCall(Candidates)
    /\ picked' = NoCall
    /\ UNCHANGED <<backends, Candidates, online>>
    /\ UNCHANGED <<raceVars, serverVars>>

TableNext(r) ==
    /\ starts > 0
    /\ picked' = <<NextResult(r)>>
    /\ UNCHANGED <<backends, Candidates, array, count, starts, seen, online>>
    /\ UNCHANGED <<raceVars, serverVars>>

NextTable ==
    \/ TableStart
    \/ \E r \in 0..MaxRand : TableNext(r)

SpecTable == InitTable /\ [][NextTable]_vars

\* ------------------------------------------------------------------------
\* Start step by step, with Next calls running between its steps
\* ------------------------------------------------------------------------

\* the duplicate-free sequences over the set S
Perms(S) == {f \in UNION {[1..n -> S] : n \in 0..Cardinality(S)} :
                \A a, b \in DOMAIN f : a # b => f[a] # f[b]}

\* the table Next draws from: the first count entries of array
Table == SubSeq(array, 1, count)

InitRace ==
    /\ backends \in [BackendIds -> [IsDown : {FALSE}, CurrentFails : {0}, Weight : PoolWeights]]
    /\ Candidates \in Perms(BackendIds)
    /\ array = <<>>
    /\ count = 0
    /\ starts = 0
    /\ seen = <<>>
    /\ picked = NoCall
    /\ online = NoCall
    /\ raceIdle
    /\ serverIdle

\* entry of Start and its first loop (part_001:19-33)
StartBegin ==
    /\ pc = "idle"
    /\ starts < MaxStarts
    /\ starts' = starts + 1
    /\ seen' = Snapshot(Candidates)
    /\ before' = Table
    /\ sumWeight' = SumWeight(Candidates)
    /\ IF SumWeight(Candidates) = 0
       THEN pc' = "idle" /\ k' = 0
       ELSE pc' = "loop" /\ k' = 1
    /\ i' = 0
    /\ cnt' = 0
    /\ view' = NoCall
    /\ UNCHANGED <<backends, Candidates, array, count, picked, online>>
    /\ UNCHANGED serverVars

\* head of the second loop: the candidate's count (part_001:35-47), or the end
\* of Start (part_001:54-55)
StartLoop ==
    /\ pc = "loop"
    /\ IF k > Len(Candidates)
       THEN /\ pc' = "idle"
            /\ k' = 0
            /\ cnt' = 0
            /\ sumWeight' = 0
       ELSE /\ cnt' = SlotCount(Normalize(CandidateWeight(Candidates[k])), sumWeight)
            /\ pc' = "append"
            /\ UNCHANGED <<k, sumWeight>>
    /\ i' = 0
    /\ UNCHANGED <<backends, Candidates, array, count, starts, seen, picked, online>>
    /\ UNCHANGED <<before, view>>
    /\ UNCHANGED serverVars

\* one turn of the inner loop (part_001:48-50)
StartAppend ==
    /\ pc = "append"
    /\ IF i < cnt
       THEN /\ array' = Append(array, Candidates[k])
            /\ i' = i + 1
            /\ pc' = "append"
       ELSE /\ pc' = "addcount"
            /\ UNCHANGED <<array, i>>
    /\ UNCHANGED <<backends, Candidates, count, starts, seen, picked, online>>
    /\ UNCHANGED <<sumWeight, k, cnt, before, view>>
    /\ UNCHANGED serverVars

\* this.count += count (part_001:51)
StartAddCount ==
    /\ pc = "addcount"
    /\ count' = count + cnt
    /\ k' = k + 1
    /\ pc' = "loop"
    /\ UNCHANGED <<backends, Candidates, array, starts, seen, picked, online>>
    /\ UNCHANGED <<sumWeight, i, cnt, before, view>>
    /\ UNCHANGED serverVars

\* a Next call from another goroutine (part_001:58-64), rand.Int() = r
RaceNext(r) ==
    /\ starts > 0
    /\ picked' = <<NextResult(r)>>
    /\ view' = <<[table |-> Table, during |-> pc # "idle", before |-> before,
                 after |-> SubSeq(StartResult(Candidates, before, Len(before))[1], 1,
                                  StartResult(Candidates, before, Len(before))[2])]>>
    /\ UNCHANGED <<backends, Candidates, array, count, starts, seen, online>>
    /\ UNCHANGED <<pc, sumWeight, k, i, cnt, before>>
    /\ UNCHANGED serverVars

\* Next ends in the runtime's index-out-of-range panic
OutOfRange == -1

\* Start writes this.array and this.count and Next reads them with no
\* synchronisation between the goroutines: a read of Next that runs during a
\* Start observes the latest write or any earlier value the location has held
\* since that Start began.

\* the values this.count has held since the running Start began: one more for
\* every candidate whose slots have been counted
CountsHeld ==
    IF pc = "idle" THEN {count}
    ELSE {Expand(SubSeq(Candidates, 1, j), 1, sumWeight, <<>>, Len(before))[2] :
            j \in 0..(k - 1)}

\* the values this.array has held since the running Start began: every append
\* wrote a slice one entry longer
ArraysHeld ==
    IF pc = "idle" THEN {array}
    ELSE {SubSeq(array, 1, n) : n \in Len(before)..Len(array)}

\* the body of Next (part_001:58-64) on the values its two reads observed
NextOn(countRead, arrayRead, r) ==
    IF countRead = 0 THEN None
    ELSE IF r % countRead >= Len(arrayRead) THEN OutOfRange
    ELSE arrayRead[(r % countRead) + 1]

\* a Next call from another goroutine while Start runs, its reads observing
\* countRead and arrayRead
RacyNext(r, countRead, arrayRead) ==
    /\ starts > 0
    /\ pc # "idle"
    /\ picked' = <<NextOn(countRead, arrayRead, r)>>
    /\ view' = <<[table |-> IF countRead <= Len(arrayRead)
                            THEN SubSeq(arrayRead, 1, countRead) ELSE arrayRead,
                 during |-> TRUE, before |-> before,
                 after |-> SubSeq(StartResult(Candidates, before, Len(before))[1], 1,
                                  StartResult(Candidates, before, Len(before))[2])]>>
    /\ UNCHANGED <<backends, Candidates, array, count, starts, seen, online>>
    /\ UNCHANGED <<pc, sumWeight, k, i, cnt, before>>
    /\ UNCHANGED serverVars

NextRace ==
    \/ StartBegin
    \/ StartLoop
    \/ StartAppend
    \/ StartAddCount
    \/ \E r \in 0..MaxRand : RaceNext(r)
    \/ \E r \in 0..MaxRand, countRead \in CountsHeld, arrayRead \in ArraysHeld :
            RacyNext(r, countRead, arrayRead)

SpecRace == InitRace /\ [][NextRace]_vars

\* ------------------------------------------------------------------------
\* ServerConfig.MatchName
\* ------------------------------------------------------------------------

\* configured names of a server
MaxNames == 2
\* a string is the sequence of its characters
Dot == "."
Star == "*"
\* the segments of the hosts and names of the model, and how many they have
SegmentValues == {<<>>, <<"a", "b">>, <<Star>>}
SegmentCounts == {1, 2}

RECURSIVE Join(_, _)
Join(segs, n) ==
    IF n = 1 THEN segs[1] ELSE Join(segs, n - 1) \o <<Dot>> \o segs[n]

\* the hosts and names of the model: segments joined by '.'
Strings == UNION {{Join(f, n) : f \in [1..n -> SegmentValues]} : n \in SegmentCounts}

\* strings.Split(s, ".")
RECURSIVE Split(_)
Split(s) ==
    IF \A p \in 1..Len(s) : s[p] # Dot THEN <<s>>
    ELSE LET p == CHOOSE q \in 1..Len(s) : s[q] = Dot /\ \A o \in 1..(q - 1) : s[o] # Dot
         IN <<SubSeq(s, 1, p - 1)>> \o Split(SubSeq(s, p + 1, Len(s)))

\* the segment loop with only "*" taken as a wildcard
PiecesMatchStarOnly(pieces1, pieces2) ==
    \A index \in 1..Len(pieces2) :
        ~(pieces1[index] # pieces2[index] /\ pieces2[index] # <<Star>>)

\* the segment loop of MatchName (part_000:393-399): matched stays true
PiecesMatch(pieces1, pieces2) ==
    \A index \in 1..Len(pieces2) :
        ~(pieces1[index] # pieces2[index] /\ pieces2[index] # <<Star>>
            /\ pieces2[index] # <<>>)

\* a segment-wise match returning the requested host
WildcardResultHost(name, testName) == [matchedName |-> name, matched |-> TRUE]

\* what MatchName returns on a segment-wise match (part_000:400-402)
WildcardResult(name, testName) == [matchedName |-> <<>>, matched |-> TRUE]

\* the loop over this.Name (part_000:382-404), from the n-th name on
RECURSIVE MatchFrom(_, _, _)
MatchFrom(names, name, n) ==
    IF n > Len(names) THEN [matchedName |-> <<>>, matched |-> FALSE]
    ELSE LET testName == names[n]
         IN IF Len(testName) = 0 THEN MatchFrom(names, name, n + 1)
            ELSE IF name = testName THEN [matchedName |-> testName, matched |-> TRUE]
            ELSE IF Len(Split(name)) # Len(Split(testName))
                 THEN MatchFrom(names, name, n + 1)
            ELSE IF PiecesMatch(Split(name), Split(testName))
                 THEN WildcardResult(name, testName)
            ELSE MatchFrom(names, name, n + 1)

\* ServerConfig.MatchName (part_000:376-405)
MatchName(names, name) ==
    IF Len(name) = 0 THEN [matchedName |-> <<>>, matched |-> FALSE]
    ELSE MatchFrom(names, name, 1)

schedIdle ==
    /\ backends = <<>> /\ Candidates = <<>> /\ array = <<>> /\ count = 0
    /\ starts = 0 /\ seen = <<>> /\ picked = NoCall /\ online = NoCall

InitMatch ==
    /\ Name = <<>>
    /\ host = <<>>
    /\ match = NoCall
    /\ Backends = <<>>
    /\ Fastcgi = <<>>
    /\ chosen = NoCall
    /\ schedIdle
    /\ raceIdle

\* ServerConfig.AddName (part_000:218-220) with one name
AddName(name) ==
    /\ Len(Name) < MaxNames
    /\ Name' = Name \o <<name>>
    /\ host' = <<>>
    /\ match' = NoCall
    /\ UNCHANGED <<Backends, Fastcgi, chosen>>
    /\ UNCHANGED <<schedVars, raceVars>>

MatchNameCall(name) ==
    /\ host' = name
    /\ match' = <<MatchName(Name, name)>>
    /\ UNCHANGED <<Name, Backends, Fastcgi, chosen>>
    /\ UNCHANGED <<schedVars, raceVars>>

NextMatch ==
    \/ \E name \in Strings : AddName(name)
    \/ \E name \in Strings : MatchNameCall(name)

SpecMatch == InitMatch /\ [][NextMatch]_vars

\* ------------------------------------------------------------------------
\* ServerConfig.NextBackend and ServerConfig.NextFastcgi
\* ------------------------------------------------------------------------

\* entries of ServerConfig.Backends and of ServerConfig.Fastcgi
MaxEntries == 2

Entries == [On : BOOLEAN, IsDown : BOOLEAN]

EntryLists == UNION {[1..n -> Entries] : n \in 0..MaxEntries}

InitServer ==
    /\ Name = <<>>
    /\ host = <<>>
    /\ match = NoCall
    /\ Backends = <<>>
    /\ Fastcgi \in EntryLists
    /\ chosen = NoCall
    /\ schedIdle
    /\ raceIdle

\* ServerConfig.AddBackend (part_000:228-230)
AddBackend(config) ==
    /\ Len(Backends) < MaxEntries
    /\ Backends' = Append(Backends, config)
    /\ chosen' = NoCall
    /\ UNCHANGED <<Name, host, match, Fastcgi>>
    /\ UNCHANGED <<schedVars, raceVars>>

\* the loop of NextBackend (part_000:239-244): the positions in list of the
\* entries that are on and not down, in order
RECURSIVE Available(_, _)
Available(list, n) ==
    IF n = 0 THEN <<>>
    ELSE Available(list, n - 1)
            \o (IF list[n].On /\ ~list[n].IsDown THEN <<n>> ELSE <<>>)

\* ServerConfig.NextBackend (part_000:234-254) with rand.Int() = r; the result
\* is the position of the returned entry in this.Backends, None for nil
NextBackendResult(r) ==
    IF Len(Backends) = 0 THEN None
    ELSE LET availableBackends == Available(Backends, Len(Backends))
             countBackends == Len(availableBackends)
         IN IF countBackends = 0 THEN None
            ELSE availableBackends[(r % countBackends) + 1]

\* ServerConfig.NextFastcgi (part_000:420-428) with rand.Int() = r
NextFastcgiResult(r) ==
    IF Len(Fastcgi) = 0 THEN None
    ELSE (r % Len(Fastcgi)) + 1

NextBackend(r) ==
    /\ chosen' = <<[of |-> "backend", entry |-> NextBackendResult(r)]>>
    /\ UNCHANGED <<Name, host, match, Backends, Fastcgi>>
    /\ UNCHANGED <<schedVars, raceVars>>

NextFastcgi(r) ==
    /\ chosen' = <<[of |-> "fastcgi", entry |-> NextFastcgiResult(r)]>>
    /\ UNCHANGED <<Name, host, match, Backends, Fastcgi>>
    /\ UNCHANGED <<schedVars, raceVars>>

NextServer ==
    \/ \E config \in Entries : AddBackend(config)
    \/ \E r \in 0..MaxRand : NextBackend(r)
    \/ \E r \in 0..MaxRand : NextFastcgi(r)

SpecServer == InitServer /\ [][NextServer]_vars

\* ------------------------------------------------------------------------
\* Properties of RandomScheduling and of the pool
\* ------------------------------------------------------------------------

\* C1: while some backend is up, a Next that follows the markDown of a backend
\* and the re-run of Start never returns a backend that is down.
C1_DownNeverPicked ==
    (picked # NoCall /\ picked # <<None>> /\ \E b \in BackendIds : ~backends[b].IsDown)
        => ~backends[picked[1]].IsDown

\* the normalized weight, the sum and the count as the specification words them
NormalWeight(w) == IF w = 0 THEN 1 ELSE IF w > 10000 THEN 10000 ELSE w

RECURSIVE SumOver(_, _)
SumOver(f, n) == IF n = 0 THEN 0 ELSE SumOver(f, n - 1) + f[n]

\* round(a / b): the integer nearest to a / b, a half going up
Nearest(a, b) == CHOOSE r \in 0..10000 : (2 * r - 1) * b <= 2 * a /\ 2 * a < (2 * r + 1) * b

\* the counts of a fresh table over the candidates with weights ws
ExpectedCounts(ws) ==
    LET norm == [j \in 1..Len(ws) |-> NormalWeight(ws[j])]
        total == SumOver(norm, Len(ws))
    IN [j \in 1..Len(ws) |->
            IF total <= 1000 THEN norm[j] ELSE Nearest(norm[j] * 10000, total)]

Occurrences(arr, c) == Cardinality({p \in 1..Len(arr) : arr[p] = c})

\* C2: after Start on a fresh instance each candidate holds exactly its count of
\* slots (the normalized weight up to a sum of 1000, round(weight * 10000 / sum)
\* above), and the recorded total is the sum of the counts.
C2_FreshTableCounts ==
    starts = 1 =>
        LET ws == [j \in 1..Len(seen) |-> seen[j].weight]
            counts == ExpectedCounts(ws)
        IN /\ \A j \in 1..Len(seen) : Occurrences(array, seen[j].id) = counts[j]
           /\ count = SumOver(counts, Len(seen))
           /\ Len(array) = count

\* a fresh table of three candidates, one of weight 0 and one above the clamp,
\* scaled to the slot universe
C2_Witness ==
    /\ starts = 1
    /\ Len(seen) = 3
    /\ \E j \in 1..3 : seen[j].weight = 0
    /\ \E j \in 1..3 : seen[j].weight > 10000
    /\ count > 1000

\* C3: a Next that runs while Start is rebuilding draws from the complete table
\* of before that Start or from the complete table that Start produces.
C3_NoPartialTable ==
    view # NoCall => (view[1].table = view[1].before \/ view[1].table = view[1].after)

\* the table a fresh instance builds from the snapshot sn
RECURSIVE FreshTable(_, _, _)
FreshTable(sn, counts, n) ==
    IF n = 0 THEN <<>>
    ELSE FreshTable(sn, counts, n - 1) \o [p \in 1..counts[n] |-> sn[n].id]

\* C4: the table and the total depend only on the candidates the most recent
\* Start saw; when it saw none, every Next returns none.
C4_TableOfLastStart ==
    starts > 0 =>
        LET counts == ExpectedCounts([j \in 1..Len(seen) |-> seen[j].weight])
        IN /\ array = FreshTable(seen, counts, Len(seen))
           /\ count = Len(array)
           /\ (seen = <<>> /\ picked # NoCall) => picked = <<None>>

\* C5 as stated: the table holds at most 10,000 entries after Start.
C5_AtMostSlotUniverse == starts = 1 => Len(array) <= 10000

\* C5, amended: every run of Start over n candidates adds at most
\* 10,000 + n / 2 (rounded down) entries to the table.
C5_BoundedPerStart ==
    /\ Len(array) <= starts * (10000 + (Len(Candidates) \div 2))
    /\ count <= starts * (10000 + (Len(Candidates) \div 2))

\* a fresh table that holds more than 10,000 entries
C5_Witness == starts = 1 /\ Len(array) > 10000

\* C9: OnlineAction.Run on a backend that the lookups find leaves it up with no
\* failures and has Start re-run (with that backend among its candidates) when it
\* reports success; when a lookup finds nothing no backend changes and Start is
\* not run.
C9_OnlineEffect ==
    online # NoCall =>
        IF /\ online[1].server \in ConfigFiles
           /\ online[1].server \in RunningServers
           /\ online[1].locationId = "loc1" /\ ~online[1].websocket
           /\ online[1].backendId \in BackendIds
        THEN /\ online[1].result = "success"
             /\ backends[online[1].backendId].IsDown = FALSE
             /\ backends[online[1].backendId].CurrentFails = 0
             /\ starts = online[1].preStarts + 1
             /\ \E j \in 1..Len(seen) : seen[j].id = online[1].backendId
        ELSE /\ \A b \in BackendIds :
                    /\ backends[b].IsDown = online[1].pre[b].IsDown
                    /\ backends[b].CurrentFails = online[1].pre[b].CurrentFails
             /\ starts = online[1].preStarts
             /\ <<array, count>> = online[1].preTable

\* a backend that was down with failures counted has been brought online
C9_Witness ==
    /\ online # NoCall
    /\ online[1].result = "success"
    /\ online[1].backendId \in BackendIds
    /\ starts = online[1].preStarts + 1
    /\ online[1].pre[online[1].backendId].IsDown
    /\ online[1].pre[online[1].backendId].CurrentFails > 0

\* the recorded count is within the array in memory
CountWithinArray == count <= Len(array)

\* C11: after any sequence of Start and Next calls, a Next between the steps of
\* a Start included, the recorded count does not exceed the length of the table
\* and no Next fails with an index out of range.
C11_NextInRange ==
    /\ count <= Len(array)
    /\ picked # <<OutOfRange>>

\* ------------------------------------------------------------------------
\* Properties of ServerConfig
\* ------------------------------------------------------------------------

\* the positions of the dots of s, then its segments: the q-th segment lies
\* between the (q-1)-th and the q-th dot
DotsOf(s) == {p \in 1..Len(s) : s[p] = Dot}
NthDot(s, q) ==
    IF q = 0 THEN 0
    ELSE IF q > Cardinality(DotsOf(s)) THEN Len(s) + 1
    ELSE CHOOSE p \in DotsOf(s) : Cardinality({o \in DotsOf(s) : o < p}) = q - 1
SegmentCount(s) == Cardinality(DotsOf(s)) + 1
Segment(s, q) == SubSeq(s, NthDot(s, q - 1) + 1, NthDot(s, q) - 1)

\* the configured name matches the host as C6 words it
NameMatches(testName, h) ==
    /\ testName # <<>>
    /\ \/ testName = h
       \/ /\ SegmentCount(testName) = SegmentCount(h)
          /\ \A q \in 1..SegmentCount(h) :
                \/ Segment(testName, q) = Segment(h, q)
                \/ Segment(testName, q) = <<Star>>
                \/ Segment(testName, q) = <<>>

\* C6: MatchName reports a match exactly when the host is not empty and some
\* non-empty configured name equals it or matches it segment by segment, "*"
\* and the empty segment matching any segment.
C6_MatchedIffSomeNameMatches ==
    match # NoCall =>
        (match[1].matched <=>
            (host # <<>> /\ \E j \in 1..Len(Name) : NameMatches(Name[j], host)))

\* a match found on the second name, segment-wise, after a first name with
\* another number of segments was skipped
C6_Witness ==
    /\ match # NoCall
    /\ match[1].matched
    /\ Len(Name) = 2
    /\ SegmentCount(Name[1]) # SegmentCount(host)
    /\ Name[2] # host
    /\ \E q \in 1..SegmentCount(host) : Segment(Name[2], q) = <<>>

\* C7: when the host equals a configured name, MatchName returns that name
\* with matched = true, whatever else is configured and in whatever order.
C7_ExactMatchFirst ==
    (match # NoCall /\ host # <<>> /\ \E j \in 1..Len(Name) : Name[j] = host)
        => match[1] = [matchedName |-> host, matched |-> TRUE]

\* MatchName succeeded on a name that is not the host: a segment-wise match
ViaWildcard ==
    /\ match # NoCall
    /\ match[1].matched
    /\ \E j \in 1..Len(Name) :
        /\ NameMatches(Name[j], host)
        /\ \A o \in 1..(j - 1) : ~NameMatches(Name[o], host)
        /\ Name[j] # host

\* C8 as stated: after a segment-wise match the matched name is the host.
C8_WildcardReturnsHost == ViaWildcard => match[1].matchedName = host

\* C8, amended: after a segment-wise match the matched name is the empty
\* string.
C8_WildcardReturnsEmpty == ViaWildcard => match[1].matchedName = <<>>

\* a two-segment host matched by a name with "*" as its first segment
C8_Witness ==
    /\ ViaWildcard
    /\ SegmentCount(host) = 2
    /\ \E j \in 1..Len(Name) : Segment(Name[j], 1) = <<Star>> /\ NameMatches(Name[j], host)

\* C10: NextBackend and NextFastcgi return an entry that is on and not down, and
\* nil exactly when there is none.
C10_SelectsAvailable ==
    chosen # NoCall =>
        LET list == IF chosen[1].of = "backend" THEN Backends ELSE Fastcgi
            ok == {n \in 1..Len(list) : list[n].On /\ ~list[n].IsDown}
        IN IF ok = {} THEN chosen[1].entry = None ELSE chosen[1].entry \in ok

====
